---- MODULE Spec2Model ----
(***************************************************************************)
(* Model of commit-changes.py: the command runner                          *)
(* run_command_with_timeout (a wrapper of subprocess.run with shell=True   *)
(* and a timeout) and the deployment driver main(), which sequences five   *)
(* fixed commands, followed by the __main__ block that turns main()'s      *)
(* result into the process exit code.                                      *)
(***************************************************************************)
EXTENDS Integers, Sequences, FiniteSets, TLC

\* Largest number of processes, other than the shell itself, that the shell
\* of one command is followed through (git, ssh, a remote helper, ...).
MaxDescendants == 2

\* The five steps of main(), in program order:
\* 1 git status --porcelain, 2 git add ., 3 git commit, 4 git push,
\* 5 gh run list --limit 3.
Steps == 1..5
StatusStep == 1
AddStep == 2
CommitStep == 3
PushStep == 4
PipelineStep == 5

\* The timeout argument main() passes for each step.
TimeoutOf == <<30, 60, 60, 120, 30>>

\* time.sleep(10) before step 5.
SleepSeconds == 10

\* What can happen to one subprocess.run call.
\*   ok       the shell exits with status 0 within the timeout
\*   nonzero  the shell exits with another status within the timeout
\*   timeout  subprocess.TimeoutExpired
\*   spawnerr Popen raises (OSError: fork failure, no /bin/sh, ...)
\*   runerr   another exception after the spawn (text=True cannot decode
\*            the captured output, ...)
Outcomes == {"ok", "nonzero", "timeout", "spawnerr", "runerr"}
Faults == {"timeout", "spawnerr", "runerr"}

VARIABLES
    pc,         \* position of the main thread
    chdir,      \* os.chdir: "pending", "ok" or "failed" (it raised)
    calls,      \* run_command_with_timeout calls so far, as step numbers
    timeouts,   \* the timeout argument of each call, in call order
    outcome,    \* per step: "none", "running" or one of Outcomes
    returned,   \* steps whose run_command_with_timeout call has returned
    succeeded,  \* steps whose run_command_with_timeout call returned True
    raisedIn,   \* steps whose run_command_with_timeout call raised
    child,      \* steps whose shell (the Popen child) is alive and unreaped
    desc,       \* per step: live processes started by that step's shell
    pauses,     \* seconds slept by time.sleep calls, in call order
    pausedAt,   \* Len(calls) at each time.sleep call
    exitCode    \* process exit code, -1 while the process runs

vars == <<pc, chdir, calls, timeouts, outcome, returned, succeeded, raisedIn, child,
          desc, pauses, pausedAt, exitCode>>

StepPc == <<"s1", "s2", "s3", "s4", "s5">>

\* The step whose call is next at a program position (0: none).
StepAt(p) ==
    IF \E s \in Steps : StepPc[s] = p
    THEN CHOOSE s \in Steps : StepPc[s] = p
    ELSE 0

\* os.chdir(...) at the top of main(): it raises OSError when the directory
\* cannot be entered, and nothing in main() or __main__ catches it.
AfterChdir_Swallowed(ok) == "s1"

AfterChdir(ok) == IF ok THEN "s1" ELSE "uncaught"

\* run_command_with_timeout's return value, from what happened to
\* subprocess.run: True only for returncode == 0; False for another
\* returncode, for TimeoutExpired and for any other Exception.
RunnerResult(o) == o = "ok"

\* Whether run_command_with_timeout lets the exception out: never, the two
\* except clauses cover TimeoutExpired and Exception.
RunnerRaises_NoCatchAll(o) == o = "spawnerr"

RunnerRaises(o) == FALSE

\* main()'s control flow after the call of step s returned r.
AfterStep_AddContinues(s, r) ==
    CASE s = StatusStep   -> IF r THEN "s2" ELSE "ret_false"
      [] s = AddStep      -> "s3"
      [] s = CommitStep   -> "s4"
      [] s = PushStep     -> IF r THEN "sleep" ELSE "ret_false"
      [] s = PipelineStep -> "ret_true"

AfterStep_PushContinues(s, r) ==
    CASE s = StatusStep   -> IF r THEN "s2" ELSE "ret_false"
      [] s = AddStep      -> IF r THEN "s3" ELSE "ret_false"
      [] s = CommitStep   -> "s4"
      [] s = PushStep     -> IF r THEN "sleep" ELSE "s5"
      [] s = PipelineStep -> "ret_true"

AfterStep_CommitAborts(s, r) ==
    CASE s = StatusStep   -> IF r THEN "s2" ELSE "ret_false"
      [] s = AddStep      -> IF r THEN "s3" ELSE "ret_false"
      [] s = CommitStep   -> IF r THEN "s4" ELSE "ret_false"
      [] s = PushStep     -> IF r THEN "sleep" ELSE "ret_false"
      [] s = PipelineStep -> "ret_true"

AfterStep_PipelineFatal(s, r) ==
    CASE s = StatusStep   -> IF r THEN "s2" ELSE "ret_false"
      [] s = AddStep      -> IF r THEN "s3" ELSE "ret_false"
      [] s = CommitStep   -> "s4"
      [] s = PushStep     -> IF r THEN "sleep" ELSE "ret_false"
      [] s = PipelineStep -> IF r THEN "ret_true" ELSE "ret_false"

AfterStep_RetryStatus(s, r) ==
    CASE s = StatusStep   -> IF r THEN "s2" ELSE "s1"
      [] s = AddStep      -> IF r THEN "s3" ELSE "ret_false"
      [] s = CommitStep   -> "s4"
      [] s = PushStep     -> IF r THEN "sleep" ELSE "ret_false"
      [] s = PipelineStep -> "ret_true"

AfterStep_SleepBeforePushCheck(s, r) ==
    CASE s = StatusStep   -> IF r THEN "s2" ELSE "ret_false"
      [] s = AddStep      -> IF r THEN "s3" ELSE "ret_false"
      [] s = CommitStep   -> "s4"
      [] s = PushStep     -> "sleep"
      [] s = PipelineStep -> "ret_true"

AfterStep(s, r) ==
    CASE s = StatusStep   -> IF r THEN "s2" ELSE "ret_false"
      [] s = AddStep      -> IF r THEN "s3" ELSE "ret_false"
      [] s = CommitStep   -> "s4"
      [] s = PushStep     -> IF r THEN "sleep" ELSE "ret_false"
      [] s = PipelineStep -> "ret_true"

\* The __main__ block: sys.exit(0) when main() returned True, else sys.exit(1).
ExitCodeOf_AlwaysZero(success) == 0

ExitCodeOf(success) == IF success THEN 0 ELSE 1

\* The interpreter's exit status when an exception reaches the top level.
UncaughtExitCode == 1

Init ==
    /\ pc = "chdir"
    /\ chdir = "pending"
    /\ calls = <<>>
    /\ timeouts = <<>>
    /\ outcome = [s \in Steps |-> "none"]
    /\ returned = {}
    /\ succeeded = {}
    /\ raisedIn = {}
    /\ child = {}
    /\ desc = [s \in Steps |-> 0]
    /\ pauses = <<>>
    /\ pausedAt = <<>>
    /\ exitCode = -1

\* os.chdir('/Users/.../dev_framework_demo')
Chdir ==
    /\ pc = "chdir"
    /\ \E ok \in BOOLEAN :
        /\ chdir' = IF ok THEN "ok" ELSE "failed"
        /\ pc' = AfterChdir(ok)
    /\ UNCHANGED <<calls, timeouts, outcome, returned, succeeded, raisedIn,
                   child, desc, pauses, pausedAt, exitCode>>

\* The return of run_command_with_timeout for step s after outcome o, and
\* main()'s branch on it.
Return(s, o) ==
    /\ outcome' = [outcome EXCEPT ![s] = o]
    /\ IF RunnerRaises(o)
       THEN /\ raisedIn' = raisedIn \cup {s}
            /\ pc' = "uncaught"
            /\ UNCHANGED <<returned, succeeded>>
       ELSE /\ returned' = returned \cup {s}
            /\ succeeded' = IF RunnerResult(o) THEN succeeded \cup {s}
                            ELSE succeeded
            /\ pc' = AfterStep(s, RunnerResult(o))
            /\ UNCHANGED raisedIn

\* main() calls run_command_with_timeout for the step at pc and Popen starts
\* /bin/sh -c cmd; subprocess.run now blocks in communicate(timeout=...).
Start ==
    /\ StepAt(pc) # 0
    /\ outcome[StepAt(pc)] \in {"none"} \cup Outcomes
    /\ LET s == StepAt(pc) IN
        /\ calls' = Append(calls, s)
        /\ timeouts' = Append(timeouts, TimeoutOf[s])
        /\ outcome' = [outcome EXCEPT ![s] = "running"]
        /\ child' = child \cup {s}
    /\ UNCHANGED <<chdir, pc, returned, succeeded, raisedIn, desc, pauses,
                   pausedAt, exitCode>>

\* main() calls run_command_with_timeout for the step at pc and Popen raises:
\* no process exists, "except Exception" returns False.
StartFail ==
    /\ StepAt(pc) # 0
    /\ outcome[StepAt(pc)] \in {"none"} \cup Outcomes
    /\ LET s == StepAt(pc) IN
        /\ calls' = Append(calls, s)
        /\ timeouts' = Append(timeouts, TimeoutOf[s])
        /\ Return(s, "spawnerr")
    /\ UNCHANGED <<chdir, child, desc, pauses, pausedAt, exitCode>>

\* The shell of the running step, or the command it runs, starts a process
\* (the shell forks the command instead of exec'ing it; git starts ssh).
Fork ==
    /\ \E s \in child :
        /\ outcome[s] = "running"
        /\ desc[s] < MaxDescendants
        /\ desc' = [desc EXCEPT ![s] = @ + 1]
    /\ UNCHANGED <<chdir, pc, calls, timeouts, outcome, returned, succeeded,
                   raisedIn, child, pauses, pausedAt, exitCode>>

\* A process started by some step's shell exits on its own.
DescendantExit ==
    /\ \E s \in Steps :
        /\ desc[s] > 0
        /\ desc' = [desc EXCEPT ![s] = @ - 1]
    /\ UNCHANGED <<chdir, pc, calls, timeouts, outcome, returned, succeeded,
                   raisedIn, child, pauses, pausedAt, exitCode>>

\* The shell exits within the timeout (it has waited for the command it
\* ran); subprocess.run reaps it and returns the CompletedProcess.
Finish ==
    /\ StepAt(pc) # 0
    /\ LET s == StepAt(pc) IN
        /\ outcome[s] = "running"
        /\ s \in child
        /\ desc[s] = 0
        /\ child' = child \ {s}
        /\ \E o \in {"ok", "nonzero"} : Return(s, o)
    /\ UNCHANGED <<chdir, calls, timeouts, desc, pauses, pausedAt, exitCode>>

\* communicate() raises TimeoutExpired: subprocess.run calls process.kill()
\* and process.wait() on the Popen child only, then re-raises; the runner's
\* "except subprocess.TimeoutExpired" returns False.
Timeout ==
    /\ StepAt(pc) # 0
    /\ LET s == StepAt(pc) IN
        /\ outcome[s] = "running"
        /\ s \in child
        /\ child' = child \ {s}
        /\ Return(s, "timeout")
    /\ UNCHANGED <<chdir, calls, timeouts, desc, pauses, pausedAt, exitCode>>

\* subprocess.run raises something else than TimeoutExpired after the spawn:
\* its handler kills the Popen child, Popen.__exit__ waits for it, and the
\* runner's "except Exception" returns False.
RunError ==
    /\ StepAt(pc) # 0
    /\ LET s == StepAt(pc) IN
        /\ outcome[s] = "running"
        /\ s \in child
        /\ child' = child \ {s}
        /\ Return(s, "runerr")
    /\ UNCHANGED <<chdir, calls, timeouts, desc, pauses, pausedAt, exitCode>>

\* time.sleep(10)
Sleep ==
    /\ pc = "sleep"
    /\ pauses' = Append(pauses, SleepSeconds)
    /\ pausedAt' = Append(pausedAt, Len(calls))
    /\ pc' = StepPc[PipelineStep]
    /\ UNCHANGED <<chdir, calls, timeouts, outcome, returned, succeeded,
                   raisedIn,
                   child, desc, exitCode>>

\* success = main(); sys.exit(0 if success else 1)
Exit ==
    /\ pc \in {"ret_true", "ret_false"}
    /\ exitCode' = ExitCodeOf(pc = "ret_true")
    /\ pc' = IF pc = "ret_true" THEN "done_true" ELSE "done_false"
    /\ UNCHANGED <<chdir, calls, timeouts, outcome, returned, succeeded,
                   raisedIn,
                   child, desc, pauses, pausedAt>>

\* An exception left main(): traceback, exit status 1.
Crash ==
    /\ pc = "uncaught"
    /\ exitCode' = UncaughtExitCode
    /\ pc' = "done_raised"
    /\ UNCHANGED <<chdir, calls, timeouts, outcome, returned, succeeded,
                   raisedIn,
                   child, desc, pauses, pausedAt>>

Next ==
    \/ Chdir
    \/ Start
    \/ StartFail
    \/ Fork
    \/ DescendantExit
    \/ Finish
    \/ Timeout
    \/ RunError
    \/ Sleep
    \/ Exit
    \/ Crash

Spec == Init /\ [][Next]_vars

Done == pc \in {"done_true", "done_false", "done_raised"}
MainReturnedTrue == pc \in {"ret_true", "done_true"}
MainReturnedFalse == pc \in {"ret_false", "done_false"}
Invoked(s) == \E i \in 1..Len(calls) : calls[i] = s
Failed(s) == s \in returned /\ s \notin succeeded

TypeOK ==
    /\ pc \in {"chdir", "s1", "s2", "s3", "s4", "s5", "sleep", "ret_true",
               "ret_false", "uncaught", "done_true", "done_false",
               "done_raised"}
    /\ chdir \in {"pending", "ok", "failed"}
    /\ \A i \in 1..Len(calls) : calls[i] \in Steps
    /\ outcome \in [Steps -> {"none", "running"} \cup Outcomes]
    /\ returned \subseteq Steps /\ succeeded \subseteq returned
    /\ child \subseteq Steps
    /\ desc \in [Steps -> 0..MaxDescendants]
    /\ exitCode \in {-1, 0, 1}

\* The calls made so far are the first Len(calls) steps of the fixed order.
IsPrefixOfOrder(q) == Len(q) <= 5 /\ \A i \in 1..Len(q) : q[i] = i

\* Positions main() can be at once the push call has returned True.
AfterPushOk == {"sleep", "s5", "ret_true", "done_true"}

\* C1: if the status check fails, or the status check succeeds and staging
\* fails, no later step's command is ever invoked, main() returns False and
\* the process exits with code 1.
C1_FatalEarlyAbort ==
    /\ Failed(StatusStep) =>
          /\ calls = <<StatusStep>>
          /\ MainReturnedFalse
          /\ (Done => exitCode = 1)
    /\ (StatusStep \in succeeded /\ Failed(AddStep)) =>
          /\ calls = <<StatusStep, AddStep>>
          /\ MainReturnedFalse
          /\ (Done => exitCode = 1)

C1_Witness ==
    /\ pc = "done_false"
    /\ outcome[StatusStep] = "ok"
    /\ outcome[AddStep] = "nonzero"
    /\ exitCode = 1

\* C2: when status, add and commit succeed and push fails, main() returns
\* False, the exit code is 1 and the pipeline-list command is never invoked.
C2_PushFailureAborts ==
    ({StatusStep, AddStep, CommitStep} \subseteq succeeded /\ Failed(PushStep)) =>
        /\ MainReturnedFalse
        /\ ~Invoked(PipelineStep)
        /\ (Done => exitCode = 1)

C2_Witness ==
    /\ pc = "done_false"
    /\ {StatusStep, AddStep, CommitStep} \subseteq succeeded
    /\ outcome[PushStep] = "nonzero"
    /\ exitCode = 1

\* C3: at process exit the exit code is 0 exactly when the push command was
\* invoked and subprocess.run delivered its exit status 0, and 1 otherwise,
\* whatever the commit and the pipeline-list steps did.
C3_ExitCodeIsPushResult ==
    Done =>
        /\ exitCode \in {0, 1}
        /\ exitCode = 0 <=> (Invoked(PushStep) /\ outcome[PushStep] = "ok")

C3_Witness ==
    /\ Done
    /\ exitCode = 0
    /\ Failed(CommitStep)
    /\ Failed(PipelineStep)

\* C4: when status and add succeed and the commit command fails, the push
\* command is still invoked (it is the very next call), and once that push
\* has succeeded main() does not return False: its result is success.
C4_CommitFailureAdvisory ==
    ({StatusStep, AddStep} \subseteq succeeded /\ Failed(CommitStep)) =>
        /\ (~Invoked(PushStep) => pc = "s4")
        /\ (PushStep \in succeeded =>
               /\ pc \in AfterPushOk
               /\ (Done => exitCode = 0))

C4_Witness ==
    /\ pc = "done_true"
    /\ outcome[CommitStep] = "nonzero"
    /\ outcome[PushStep] = "ok"
    /\ exitCode = 0

\* C5: once the push command has succeeded, main() never returns False and
\* the run ends in success, for every outcome of the pipeline-list command
\* (exit 0, non-zero exit, timeout, spawn error, other exception).
C5_PipelineOutcomeIrrelevant ==
    PushStep \in succeeded =>
        /\ pc \in AfterPushOk
        /\ (outcome[PipelineStep] \in Outcomes => MainReturnedTrue)
        /\ (Done => pc = "done_true" /\ exitCode = 0)

C5_Witness ==
    /\ pc = "done_true"
    /\ PushStep \in succeeded
    /\ outcome[PipelineStep] = "timeout"
    /\ exitCode = 0

\* C6: whenever a command exceeds its timeout, at the moment
\* run_command_with_timeout returns False neither the shell spawned for it
\* nor any process that shell started is still running.
C6_NoProcessSurvivesTimeout ==
    [][\A s \in Steps :
          (outcome[s] = "running" /\ outcome'[s] = "timeout") =>
              /\ s \notin succeeded'
              /\ s \notin child'
              /\ desc'[s] = 0]_vars

C8_FaultLikeNonZeroExit ==
    /\ [](\A s \in Steps :
            outcome[s] \in Faults =>
                /\ s \in returned
                /\ s \notin succeeded
                /\ s \notin raisedIn
                /\ (s \in {StatusStep, AddStep, PushStep} =>
                       /\ MainReturnedFalse
                       /\ (Done => exitCode = 1))
                /\ (s \in {CommitStep, PipelineStep} => ~MainReturnedFalse
                       \/ Failed(PushStep)))
    /\ [][\A s \in Steps :
            (outcome[s] \notin Faults /\ outcome'[s] \in Faults) =>
                pc' = AfterStep(s, RunnerResult("nonzero"))]_vars

C8_Witness ==
    /\ pc = "done_true"
    /\ outcome[CommitStep] = "spawnerr"
    /\ outcome[PushStep] = "ok"
    /\ outcome[PipelineStep] = "timeout"

\* C9: time.sleep(10) is called at most once per run, only after the push
\* call returned True and while the pipeline-list command has not been
\* invoked yet; a run that aborts (status, add or push failure, or an
\* exception) has not paused.
C9_SinglePauseAfterPush ==
    /\ Len(pauses) <= 1
    /\ Len(pauses) = 1 =>
          /\ pauses[1] = SleepSeconds
          /\ PushStep \in succeeded
          /\ pausedAt[1] = PushStep
    /\ Invoked(PipelineStep) => Len(pauses) = 1
    /\ (MainReturnedFalse \/ pc \in {"uncaught", "done_raised"}) =>
          pauses = <<>>

C9_Witness ==
    /\ pc = "s5"
    /\ pauses = <<SleepSeconds>>
    /\ calls = <<1, 2, 3, 4>>
    /\ outcome[PushStep] = "ok"

\* C10: no command is invoked unless os.chdir has succeeded; when it fails
\* the run ends with no call made and a non-zero exit code.
C10_NoCommandBeforeChdir ==
    /\ chdir # "ok" => calls = <<>>
    /\ chdir = "failed" =>
          /\ pc \in {"uncaught", "done_raised"}
          /\ (Done => exitCode # 0)

C10_Witness ==
    /\ chdir = "failed"
    /\ pc = "done_raised"
    /\ calls = <<>>
    /\ exitCode = 1
====
